---- MODULE Spec2Model ----
(***************************************************************************)
(* Yellow-rs expression front end: the lexer (src/core/eval/lexer.rs) and  *)
(* the tree-walking evaluator (src/core/eval/exec.rs).                     *)
(*                                                                         *)
(* A source text is a sequence of characters; a character is a string.     *)
(* Characters that are not printable ASCII are named by their code point   *)
(* ("U+0085").  A Rust &str is indexed by BYTES, so each character has a   *)
(* UTF-8 width and a slice is defined only on character boundaries.        *)
(***************************************************************************)
EXTENDS Integers, Sequences, FiniteSets, TLC

VARIABLES
    src,      \* Lexer.file_contents, as a sequence of characters
    it,       \* number of characters already taken from Lexer.chars_peek
    pos,      \* Lexer.pos
    tokens,   \* the local `tokens` vector of tokenize
    result,   \* "running" | "ok" | "err" | "panic": how tokenize ended
    error,    \* the Error tokenize returned (NoError while there is none)
    symbtab,  \* Executer.symbtab
    overflow_checks,  \* the build: TRUE with overflow checks (debug), FALSE without
    ast,      \* the expression last handed to Executer::eval
    out,      \* what that call returned
    calls     \* calls of Executer::eval made on this evaluator

lexvars == <<src, it, pos, tokens, result, error>>

evalvars == <<symbtab, overflow_checks, ast, out, calls>>

vars == <<lexvars, evalvars>>

----------------------------------------------------------------------------
(* Bounds of the lexer's inputs *)

MaxLen == 2
MaxNumLen == 5
MaxMixLen == 4
MaxOpLen == 3

\* Every character class tokenize tells apart, in short sources.
FullAlphabet ==
    {"1", ".", "e", "E", "a", "s", "_", " ", "U+2028", "U+0000", "@", "=",
     "!", "|", "&", "*", "/", ">", "<", "+", "-", "~", "^", "%", "(", ")"}

\* Numeric literals, long enough for digit+ '.' digit+ 'e' digit+.
NumAlphabet == {"1", ".", "e", "E"}

\* Literals among one-byte and two-byte whitespace and the character U+0000.
MixAlphabet == {"1", ".", "e", " ", "U+0085", "U+0000"}

\* Runs of operators.
OpAlphabet == {"*", "=", ">", "!", "+", "("}

RECURSIVE SeqsUpTo(_, _)
SeqsUpTo(A, n) ==
    IF n = 0 THEN {<< >>}
    ELSE LET shorter == SeqsUpTo(A, n - 1)
         IN  shorter \cup {Append(s, c) : s \in shorter, c \in A}

Sources ==
    SeqsUpTo(FullAlphabet, MaxLen)
        \cup SeqsUpTo(NumAlphabet, MaxNumLen)
        \cup SeqsUpTo(MixAlphabet, MaxMixLen)
        \cup SeqsUpTo(OpAlphabet, MaxOpLen)

----------------------------------------------------------------------------
(* Characters *)

EOF_CHAR == "U+0000"

Digit == {"0", "1", "2", "3", "4", "5", "6", "7", "8", "9"}

Letter ==
    {"a", "b", "c", "d", "e", "f", "g", "h", "i", "j", "k", "l", "m", "n",
     "o", "p", "q", "r", "s", "t", "u", "v", "w", "x", "y", "z",
     "A", "B", "C", "D", "E", "F", "G", "H", "I", "J", "K", "L", "M", "N",
     "O", "P", "Q", "R", "S", "T", "U", "V", "W", "X", "Y", "Z"}

is_whitespace(c) ==
    c \in {"U+0009", "U+000A", "U+000B", "U+000C", "U+000D", " ",
           "U+0085", "U+200E", "U+200F", "U+2028", "U+2029"}

\* is_id_continue, as the set of characters it accepts
IdContinue == Letter \cup Digit \cup {"_"}

is_id_start(c) == c \in Letter \cup {"_"}

\* UTF-8 length of a character: the unit of &str indexing.
Utf8Len(c) ==
    CASE c \in {"U+0085"} -> 2
      [] c \in {"U+200E", "U+200F", "U+2028", "U+2029"} -> 3
      [] OTHER -> 1

RECURSIVE ByteOffset(_, _)
\* Byte offset at which character number k+1 of s starts (k characters before it).
ByteOffset(s, k) == IF k = 0 THEN 0 ELSE ByteOffset(s, k - 1) + Utf8Len(s[k])

ByteLen(s) == ByteOffset(s, Len(s))

is_char_boundary(s, b) == \E k \in 0..Len(s) : ByteOffset(s, k) = b

\* &s[a..b]: defined on character boundaries only; Rust panics otherwise.
SliceOk(s, a, b) == a <= b /\ is_char_boundary(s, a) /\ is_char_boundary(s, b)

Slice(s, a, b) ==
    LET ka == CHOOSE k \in 0..Len(s) : ByteOffset(s, k) = a
        kb == CHOOSE k \in 0..Len(s) : ByteOffset(s, k) = b
    IN  SubSeq(s, ka + 1, kb)

----------------------------------------------------------------------------
(* Tokens and errors *)

Token(tok_type, value, start, end) ==
    [tok_type |-> tok_type, value |-> value, start |-> start, end |-> end]

Pos(start, end) == [start |-> start, end |-> end]

Error(msg, kind, p) == [msg |-> msg, kind |-> kind, pos |-> p]

NoError == Error(<<>>, "none", Pos(0, 0))

NoToken == Token("none", <<>>, 0, 0)

\* What a lexer routine hands back: the lexer's position after it, and a token,
\* an error or a panic.
Lexed(st, L, tok, err) == [st |-> st, L |-> L, tok |-> tok, err |-> err]

----------------------------------------------------------------------------
(* Lexer: the cursor L is [it, pos] *)

peek_char(L) == IF L.it < Len(src) THEN src[L.it + 1] ELSE EOF_CHAR

bump_char(L) ==
    [it |-> IF L.it < Len(src) THEN L.it + 1 ELSE L.it, pos |-> L.pos + 1]

RECURSIVE len_eat_while(_, _)
\* Number of characters eaten: those in `accepted`, up to the first other one.
len_eat_while(L, accepted) ==
    LET val == peek_char(L)
    IN  IF val \in accepted /\ val # EOF_CHAR
        THEN 1 + len_eat_while(bump_char(L), accepted)
        ELSE 0

\* The cursor after len_eat_while ate n characters.
Eaten(L, n) == [it |-> L.it + n, pos |-> L.pos + n]

\* crate_tok with the span's end one past the slice it took (an off-by-one).
crate_tok_wide(L, tok_type, next_len) ==
    IF SliceOk(src, L.pos - next_len, L.pos)
    THEN Lexed("ok", L,
               Token(tok_type, Slice(src, L.pos - next_len, L.pos),
                     L.pos - next_len, L.pos + 1),
               NoError)
    ELSE Lexed("panic", L, NoToken, NoError)

crate_tok(L, tok_type, next_len) ==
    IF SliceOk(src, L.pos - next_len, L.pos)
    THEN Lexed("ok", L,
               Token(tok_type, Slice(src, L.pos - next_len, L.pos),
                     L.pos - next_len, L.pos),
               NoError)
    ELSE Lexed("panic", L, NoToken, NoError)

\* number_err that accepts an empty digit run (`inc == 0` for `inc == 1`).
number_err_lenient(L, next_len, err_val) ==
    LET inc == len_eat_while(L, Digit) + 1
        L2  == Eaten(L, inc - 1)
    IN  [ok       |-> inc # 0,
         L        |-> L2,
         next_len |-> next_len + inc,
         err      |-> Error(<<"expected number after", err_val>>, "LexError",
                            Pos(L2.pos, L2.pos + 1))]

\* number_err: [ok, L, next_len, err]
number_err(L, next_len, err_val) ==
    LET inc == len_eat_while(L, Digit) + 1
        L2  == Eaten(L, inc - 1)
    IN  [ok       |-> inc # 1,
         L        |-> L2,
         next_len |-> next_len + inc,
         err      |-> Error(<<"expected number after", err_val>>, "LexError",
                            Pos(L2.pos, L2.pos + 1))]

number(L) ==
    LET n0 == len_eat_while(L, Digit)
        L1 == Eaten(L, n0)
        c  == peek_char(L1)
    IN  CASE c = "." ->
               LET r1 == number_err(bump_char(L1), n0 + 1, ".")
                   next_tok == peek_char(r1.L)
               IN  IF ~r1.ok THEN Lexed("err", r1.L, NoToken, r1.err)
                   ELSE IF next_tok \in {"e", "E"}
                   THEN LET r2 == number_err(bump_char(r1.L), r1.next_len, next_tok)
                        IN  IF ~r2.ok THEN Lexed("err", r2.L, NoToken, r2.err)
                            ELSE crate_tok(r2.L, "Float", r2.next_len)
                   ELSE crate_tok(r1.L, "Float", r1.next_len)
          [] c \in {"e", "E"} ->
               LET r1 == number_err(bump_char(L1), n0 + 1, ".")
               IN  IF ~r1.ok THEN Lexed("err", r1.L, NoToken, r1.err)
                   ELSE crate_tok(r1.L, "Float", r1.next_len)
          [] OTHER -> crate_tok(L1, "Integer", n0 + 1)

identifier(L) ==
    LET n0 == len_eat_while(L, IdContinue)
        L1 == Eaten(L, n0)
        next_len == n0 + 1
    IN  IF ~SliceOk(src, L1.pos - next_len, L1.pos)
        THEN Lexed("panic", L1, NoToken, NoError)
        ELSE LET ident == Slice(src, L1.pos - next_len, L1.pos)
             IN  Lexed("ok", L1,
                       Token(CASE ident = <<"a", "s">> -> "As"
                               [] ident = <<"t", "r", "u", "e">> -> "TRUE"
                               [] ident = <<"f", "a", "l", "s", "e">> -> "FALSE"
                               [] OTHER -> "Identifier",
                             ident, L1.pos - next_len, L1.pos),
                       NoError)

SingleChars == {"+", "-", "~", "^", "%", "(", ")"}

\* new_literal accepts these; any other character is its panic!("Bad operator given!")
LiteralChars == {"(", ")", "+", "-", "/", "*", "%", "&", "|", "~", "!", ">", "<", "^"}

new_literal(L, c) ==
    IF c \notin LiteralChars THEN Lexed("panic", L, NoToken, NoError)
    ELSE Lexed("ok", L,
               Token(CASE c = "(" -> "LP"
                       [] c = ")" -> "RP"
                       [] c = "+" -> "Add"
                       [] c = "-" -> "Sub"
                       [] c = "/" -> "Div"
                       [] c = "*" -> "Mul"
                       [] c = "%" -> "Mod"
                       [] c = "&" -> "BAnd"
                       [] c = "|" -> "BOr"
                       [] c = "~" -> "BNot"
                       [] c = "!" -> "LNot"
                       [] c = ">" -> "GT"
                       [] c = "<" -> "LT"
                       [] c = "^" -> "BXor",
                     <<>>, L.pos - 1, L.pos),
               NoError)

\* double_op that forgets to consume the operator's second character.
double_op_nobump(L, tok_type) ==
    Lexed("ok", L, Token(tok_type, <<>>, L.pos - 1, L.pos + 1), NoError)

double_op(L, tok_type) ==
    Lexed("ok", bump_char(L), Token(tok_type, <<>>, L.pos - 1, L.pos + 1), NoError)

\* The arms of tokenize that use double_match!: first character -> (second -> operator)
DoubleTable ==
    [c \in {"!", "|", "&", "*", "/", ">", "<"} |->
        CASE c = "!" -> {<<"=", "NEql">>}
          [] c = "|" -> {<<"|", "LOr">>}
          [] c = "&" -> {<<"&", "LAnd">>}
          [] c = "*" -> {<<"*", "Pow">>}
          [] c = "/" -> {<<"/", "IntDiv">>}
          [] c = ">" -> {<<"=", "GE">>, <<">", "BitShiftR">>}
          [] c = "<" -> {<<"=", "LE">>, <<"<", "BitShiftL">>}]

double_match(L, first) ==
    LET second == peek_char(L)
        hits   == {p \in DoubleTable[first] : p[1] = second}
    IN  IF hits # {}
        THEN double_op(L, (CHOOSE p \in hits : TRUE)[2])
        ELSE new_literal(L, first)

e(L, current) ==
    Lexed("err", L, NoToken,
          Error(<<"unrecognized character", current>>, "LexError",
                Pos(L.pos, L.pos + 1)))

----------------------------------------------------------------------------
(* tokenize: one action per arm of its loop.  Each step bumps `current` and *)
(* runs the arm that matches it; the loop ends at EOF_CHAR or at an error.  *)

Cursor == [it |-> it, pos |-> pos]

current == peek_char(Cursor)

\* The effect of one arm on the lexer and on tokenize's locals.
Arm(r) ==
    /\ it' = r.L.it
    /\ pos' = r.L.pos
    /\ tokens' = IF r.st = "ok" THEN Append(tokens, r.tok) ELSE tokens
    /\ result' = IF r.st = "ok" THEN "running" ELSE r.st
    /\ error' = IF r.st = "err" THEN r.err ELSE error
    /\ UNCHANGED <<src, evalvars>>

LexNumber ==
    /\ result = "running"
    /\ current \in Digit
    /\ Arm(number(bump_char(Cursor)))

LexWhitespace ==
    /\ result = "running"
    /\ current # EOF_CHAR
    /\ is_whitespace(current)
    /\ it' = bump_char(Cursor).it
    /\ pos' = bump_char(Cursor).pos
    /\ UNCHANGED <<src, tokens, result, error, evalvars>>

LexIdentifier ==
    /\ result = "running"
    /\ is_id_start(current)
    /\ Arm(identifier(bump_char(Cursor)))

LexSingle ==
    /\ result = "running"
    /\ current \in SingleChars
    /\ Arm(new_literal(bump_char(Cursor), current))

LexDouble ==
    /\ result = "running"
    /\ current \in DOMAIN DoubleTable
    /\ Arm(double_match(bump_char(Cursor), current))

LexEql ==
    /\ result = "running"
    /\ current = "="
    /\ LET L == bump_char(Cursor)
       IN  IF peek_char(L) = "=" THEN Arm(double_op(L, "Eql")) ELSE Arm(e(L, current))

LexUnrecognized ==
    /\ result = "running"
    /\ current # EOF_CHAR
    /\ current \notin Digit
    /\ ~is_whitespace(current)
    /\ ~is_id_start(current)
    /\ current \notin SingleChars \cup DOMAIN DoubleTable \cup {"="}
    /\ Arm(e(bump_char(Cursor), current))

LexEOF ==
    /\ result = "running"
    /\ current = EOF_CHAR
    /\ LET L == bump_char(Cursor)
       IN  /\ it' = L.it
           /\ pos' = L.pos
           /\ tokens' = Append(tokens, Token("EOF", <<>>, L.pos, L.pos))
           /\ result' = "ok"
    /\ UNCHANGED <<src, error, evalvars>>

LexInit ==
    /\ src \in Sources
    /\ it = 0
    /\ pos = 0
    /\ tokens = <<>>
    /\ result = "running"
    /\ error = NoError
    /\ symbtab = <<>>
    /\ overflow_checks = TRUE
    /\ ast = [expr |-> "none"]
    /\ out = [st |-> "none"]
    /\ calls = 0

LexNext ==
    \/ LexNumber
    \/ LexWhitespace
    \/ LexIdentifier
    \/ LexSingle
    \/ LexDouble
    \/ LexEql
    \/ LexUnrecognized
    \/ LexEOF

LexSpec == LexInit /\ [][LexNext]_vars

----------------------------------------------------------------------------
(* The lexer's claims *)

\* The character at index i of s, or a mark that is no character past its end.
CharAt(s, i) == IF i \in 1..Len(s) THEN s[i] ELSE "END"

RECURSIVE DigitRunEnd(_, _)
\* The first index at or after i that holds no digit.
DigitRunEnd(s, i) == IF CharAt(s, i) \in Digit THEN DigitRunEnd(s, i + 1) ELSE i

Markers == {".", "e", "E"}

\* A digit at index i that ends its run, then a marker, then no digit.
DanglingMarkerAfter(s, i) ==
    /\ CharAt(s, i) \in Digit
    /\ CharAt(s, i + 1) \in Markers
    /\ CharAt(s, i + 2) \notin Digit

\* The literal grammar of the specification, read greedily from index i (a digit):
\* the kind of literal that starts there and the index of its last character.
NumShape(s, i) ==
    LET j == DigitRunEnd(s, i)
    IN  CASE CharAt(s, j) = "." /\ CharAt(s, j + 1) \in Digit ->
               LET k == DigitRunEnd(s, j + 1)
               IN  IF CharAt(s, k) \in {"e", "E"}
                   THEN IF CharAt(s, k + 1) \in Digit
                        THEN [kind |-> "Float", last |-> DigitRunEnd(s, k + 1) - 1]
                        ELSE [kind |-> "Bad", last |-> k]
                   ELSE [kind |-> "Float", last |-> k - 1]
          [] CharAt(s, j) = "." -> [kind |-> "Bad", last |-> j]
          [] CharAt(s, j) \in {"e", "E"} ->
               IF CharAt(s, j + 1) \in Digit
               THEN [kind |-> "Float", last |-> DigitRunEnd(s, j + 1) - 1]
               ELSE [kind |-> "Bad", last |-> j]
          [] OTHER -> [kind |-> "Integer", last |-> j - 1]

\* tokenize is about to lex the token that starts at character it + 1.
AtTokenStart == result = "running" /\ it < Len(src)

\* C1: on success the token sequence ends with exactly one EndOfFile token (none
\* earlier) and that token's span is {len, len}, len the length of the source.
C1_EofSpanIsLen ==
    result = "ok" =>
        /\ Len(tokens) >= 1
        /\ tokens[Len(tokens)].tok_type = "EOF"
        /\ \A i \in 1..(Len(tokens) - 1) : tokens[i].tok_type # "EOF"
        /\ tokens[Len(tokens)].start = ByteLen(src)
        /\ tokens[Len(tokens)].end = ByteLen(src)

\* The digit at index i belongs to a numeric literal: to the text that starts at
\* a digit following no identifier character and no `.`, and runs as far as the
\* literal grammar reaches.
InNumericLiteral(s, i) ==
    /\ CharAt(s, i) \in Digit
    /\ \E r \in 1..i :
          /\ s[r] \in Digit
          /\ CharAt(s, r - 1) \notin IdContinue \cup {"."}
          /\ i <= NumShape(s, r).last

\* C2 as stated: whenever a run of digits of a numeric literal (leading digits,
\* fraction or exponent) is immediately followed by `.`, `e` or `E` and no digit
\* follows that marker, tokenize fails: it does not succeed.
C2_AnyDigitRunOriginal ==
    result = "ok" =>
        \A i \in 1..it :
            InNumericLiteral(src, i) => ~DanglingMarkerAfter(src, i)

\* C2 amended: whenever the leading digits of a numeric literal are immediately
\* followed by `.`, `e` or `E`, or the fraction of digit+ '.' digit+ by `e` or `E`,
\* and no digit follows that marker, tokenize fails with LexError and emits no
\* token for the digits.
C2_DanglingMarkerFails ==
    [][(AtTokenStart /\ current \in Digit /\ NumShape(src, it + 1).kind = "Bad")
        => (result' = "err" /\ error'.kind = "LexError" /\ tokens' = tokens)]_lexvars

\* tokenize failed on the exponent marker that follows digit+ '.' digit+.
C2_Witness ==
    /\ result = "err"
    /\ error.kind = "LexError"
    /\ it >= 4
    /\ src[it] \in {"e", "E"}
    /\ src[it - 1] \in Digit
    /\ \E j \in 2..(it - 2) :
          /\ src[j] = "."
          /\ \A k \in 1..(it - 1) : k # j => src[k] \in Digit

\* C3: a literal matching the float grammar is lexed as exactly one Float token
\* whose text is the whole literal, and a digit+ literal delimited by whitespace
\* or the end of input as exactly one Integer token whose text is the whole literal.
C3_LiteralIsOneToken ==
    [][(AtTokenStart /\ current \in Digit)
        => LET shape == NumShape(src, it + 1)
               after == CharAt(src, shape.last + 1)
           IN  (\/ shape.kind = "Float"
                \/ /\ shape.kind = "Integer"
                   /\ (after = "END" \/ is_whitespace(after)))
               => /\ result' = "running"
                  /\ it' = shape.last
                  /\ tokens' = Append(tokens, tokens'[Len(tokens')])
                  /\ tokens'[Len(tokens')].tok_type = shape.kind
                  /\ tokens'[Len(tokens')].value = SubSeq(src, it + 1, shape.last)
       ]_lexvars

TwoCharOps ==
    {<<"!", "=", "NEql">>, <<"|", "|", "LOr">>, <<"&", "&", "LAnd">>,
     <<"*", "*", "Pow">>, <<"/", "/", "IntDiv">>, <<">", "=", "GE">>,
     <<">", ">", "BitShiftR">>, <<"<", "=", "LE">>, <<"<", "<", "BitShiftL">>}

OneCharOps ==
    {<<"!", "LNot">>, <<"|", "BOr">>, <<"&", "BAnd">>, <<"*", "Mul">>,
     <<"/", "Div">>, <<">", "GT">>, <<"<", "LT">>, <<"+", "Add">>, <<"-", "Sub">>,
     <<"~", "BNot">>, <<"^", "BXor">>, <<"%", "Mod">>, <<"(", "LP">>, <<")", "RP">>}

\* C4: at one of ! | & * / > < the two-character operator is emitted, with a span
\* of two, and both characters are consumed exactly when the next character forms
\* the pair; otherwise, and at + - ~ ^ % ( ), the one-character token is emitted
\* and one character is consumed.  Tokens are appended in source order.
C4_OperatorTokens ==
    [][(AtTokenStart /\ \E o \in OneCharOps : o[1] = current)
        => LET pair == {p \in TwoCharOps : p[1] = current /\ p[2] = CharAt(src, it + 2)}
               one  == CHOOSE o \in OneCharOps : o[1] = current
               tok  == tokens'[Len(tokens')]
           IN  /\ result' = "running"
               /\ tokens' = Append(tokens, tok)
               /\ IF pair # {}
                  THEN /\ tok.tok_type = (CHOOSE p \in pair : TRUE)[3]
                       /\ tok.end - tok.start = 2
                       /\ it' = it + 2
                  ELSE /\ tok.tok_type = one[2]
                       /\ tok.end - tok.start = 1
                       /\ it' = it + 1
       ]_lexvars

\* A two-character operator, then the one-character fallback of the same first
\* character, then a character lexed on its own: "**" "*" "(" and the like.
C4_Witness ==
    /\ result = "ok"
    /\ Len(src) = 3
    /\ Len(tokens) = 3
    /\ \E p \in TwoCharOps : src[1] = p[1] /\ src[2] = p[2] /\ tokens[1].tok_type = p[3]
    /\ \E o \in OneCharOps : src[3] = o[1] /\ tokens[2].tok_type = o[2]

\* C5: an unrecognized character, or a `=` not followed by `=`, fails with a
\* LexError whose span is {i, i+1}, i the offset of the offending character.
C5_UnrecognizedSpan ==
    (result = "err" /\ error.msg[1] = "unrecognized character")
        => /\ error.kind = "LexError"
           /\ error.pos = Pos(ByteOffset(src, it - 1), ByteOffset(src, it - 1) + 1)

RECURSIVE Utf8(_)
\* The bytes of a text: each character, once per byte of its encoding.
Utf8(s) ==
    IF s = <<>> THEN <<>>
    ELSE Utf8(SubSeq(s, 1, Len(s) - 1))
            \o [b \in 1..Utf8Len(s[Len(s)]) |-> <<s[Len(s)], b>>]

ValueTokens == {"Integer", "Float", "Identifier"}

\* C6: every Integer, Float and Identifier token returned has
\* start <= end <= len, in bytes, and its text is the bytes source[start..end],
\* whatever multi-byte whitespace precedes it.
C6_TextIsSourceSlice ==
    result = "ok" =>
        \A i \in 1..Len(tokens) :
            tokens[i].tok_type \in ValueTokens =>
                /\ tokens[i].start <= tokens[i].end
                /\ tokens[i].end <= ByteLen(src)
                /\ Utf8(tokens[i].value)
                     = SubSeq(Utf8(src), tokens[i].start + 1, tokens[i].end)

\* tokenize returned a value token that follows multi-byte whitespace.
C6_Witness ==
    /\ result = "ok"
    /\ Len(src) >= 2
    /\ Utf8Len(src[1]) > 1
    /\ \E i \in 1..Len(tokens) : tokens[i].tok_type \in ValueTokens

\* C7: on success every character of the source is whitespace or lies inside the
\* span of exactly one returned non-EndOfFile token, the spans are disjoint and
\* increase in sequence order, and nothing of the source is left unlexed.
C7_WholeInputCovered ==
    result = "ok" =>
        LET toks == SubSeq(tokens, 1, Len(tokens) - 1)
            Covers(t, k) ==
                t.start <= ByteOffset(src, k - 1) /\ ByteOffset(src, k) <= t.end
        IN  /\ it = Len(src)
            /\ \A k \in 1..Len(src) :
                  \/ is_whitespace(src[k])
                  \/ Cardinality({i \in 1..Len(toks) : Covers(toks[i], k)}) = 1
            /\ \A i \in 1..Len(toks) : toks[i].start < toks[i].end
            /\ \A i \in 1..(Len(toks) - 1) : toks[i].end <= toks[i + 1].start

----------------------------------------------------------------------------
(* Evaluator: values *)

\* Width of ExecutionExpr::Integer.  The program's i128, u32 and i32 are kept as
\* two's-complement ranges of IntBits, U32Bits and I32Bits bits, narrow enough to
\* enumerate: I32Bits < IntBits, and IntBits <= 2^U32Bits - 1 < 2^(IntBits-1).
IntBits == 6
U32Bits == 4
I32Bits == 4

I128_MIN == -(2 ^ (IntBits - 1))
I128_MAX == 2 ^ (IntBits - 1) - 1
U32_MAX == 2 ^ U32Bits - 1
I32_MIN == -(2 ^ (I32Bits - 1))
I32_MAX == 2 ^ (I32Bits - 1) - 1

InI128(n) == I128_MIN <= n /\ n <= I128_MAX

\* Wrapping of a mathematical integer into the two's-complement range.
Wrap(n) ==
    LET m == n % (2 ^ IntBits)
    IN  IF m > I128_MAX THEN m - 2 ^ IntBits ELSE m

Abs(n) == IF n < 0 THEN -n ELSE n

\* Rust's integer `/` and `%`: truncation toward zero.
TruncDiv(a, b) ==
    LET q == Abs(a) \div Abs(b)
    IN  IF (a < 0) # (b < 0) THEN -q ELSE q

TruncRem(a, b) == a - b * TruncDiv(a, b)

\* n / d rounded to the nearest integer, ties away from zero (d > 0).
RoundDiv(n, d) ==
    LET q == (2 * Abs(n) + d) \div (2 * d)
    IN  IF n < 0 THEN -q ELSE q

\* ExecutionExpr::Float.  An f64 is kept as a decimal fixed-point number: a finite
\* value is m / FScale with |m| <= FMax, and what lies beyond is an infinity.
\* Signed zeros are not told apart.
FScale == 10

FMax == FScale * 2 ^ (IntBits + 1)

NaN == [cls |-> "nan", m |-> 0]

Inf(negative) == [cls |-> IF negative THEN "-inf" ELSE "inf", m |-> 0]

\* The f64 nearest to m / FScale.
Fin(m) ==
    IF m > FMax THEN Inf(FALSE)
    ELSE IF m < -FMax THEN Inf(TRUE)
    ELSE [cls |-> "fin", m |-> m]

IsInf(x) == x.cls \in {"inf", "-inf"}

IsNeg(x) == x.cls = "-inf" \/ (x.cls = "fin" /\ x.m < 0)

IsZero(x) == x.cls = "fin" /\ x.m = 0

Integer(i) == [ty |-> "Integer", v |-> i]

Float(x) == [ty |-> "Float", v |-> x]

Bool(b) == [ty |-> "Bool", v |-> b]

\* The type's name, without the backquotes display_type puts around it.
display_type(value) ==
    CASE value.ty = "Integer" -> "integer"
      [] value.ty = "Float" -> "float"
      [] value.ty = "Bool" -> "boolean"

\* An equality that takes values of different variants for equal.
ValueEq_loose(a, b) == IF a.ty = b.ty THEN a.v = b.v ELSE TRUE

\* derive(PartialEq) on ExecutionExpr: same variant and equal payload (NaN != NaN).
ValueEq(a, b) ==
    /\ a.ty = b.ty
    /\ IF a.ty = "Float" THEN a.v.cls # "nan" /\ a.v = b.v ELSE a.v = b.v

(* f64 arithmetic *)

FNeg(x) ==
    CASE x.cls = "nan" -> NaN
      [] x.cls = "inf" -> Inf(TRUE)
      [] x.cls = "-inf" -> Inf(FALSE)
      [] OTHER -> Fin(-x.m)

FAbs(x) ==
    CASE x.cls = "nan" -> NaN
      [] IsInf(x) -> Inf(FALSE)
      [] OTHER -> Fin(Abs(x.m))

FAdd(x, y) ==
    CASE x.cls = "nan" \/ y.cls = "nan" -> NaN
      [] IsInf(x) /\ IsInf(y) -> IF x.cls = y.cls THEN x ELSE NaN
      [] IsInf(x) -> x
      [] IsInf(y) -> y
      [] OTHER -> Fin(x.m + y.m)

FSub(x, y) == FAdd(x, FNeg(y))

FMul(x, y) ==
    CASE x.cls = "nan" \/ y.cls = "nan" -> NaN
      [] IsInf(x) \/ IsInf(y) ->
            IF IsZero(x) \/ IsZero(y) THEN NaN ELSE Inf(IsNeg(x) # IsNeg(y))
      [] OTHER -> Fin(RoundDiv(x.m * y.m, FScale))

FDiv(x, y) ==
    CASE x.cls = "nan" \/ y.cls = "nan" -> NaN
      [] IsInf(x) -> IF IsInf(y) THEN NaN ELSE Inf(IsNeg(x) # IsNeg(y))
      [] IsInf(y) -> Fin(0)
      [] IsZero(y) -> IF IsZero(x) THEN NaN ELSE Inf(IsNeg(x))
      [] OTHER ->
            IF Abs(x.m) * FScale > (FMax + 1) * Abs(y.m)
            THEN Inf(IsNeg(x) # IsNeg(y))
            ELSE Fin(IF y.m < 0 THEN -RoundDiv(x.m * FScale, -y.m)
                     ELSE RoundDiv(x.m * FScale, y.m))

\* f64 `%`: the remainder has the sign of the dividend.
FRem(x, y) ==
    CASE x.cls = "nan" \/ y.cls = "nan" -> NaN
      [] IsInf(x) \/ IsZero(y) -> NaN
      [] IsInf(y) -> x
      [] OTHER -> Fin(TruncRem(x.m, y.m))

RECURSIVE FPowNat(_, _)
\* x multiplied by itself n times.
FPowNat(x, n) == IF n = 0 THEN Fin(FScale) ELSE FMul(x, FPowNat(x, n - 1))

\* f64::powf.  A whole exponent is repeated multiplication; a fractional exponent
\* of a positive base is read off between the two neighbouring whole powers.
FPow(x, y) ==
    CASE IsZero(y) -> Fin(FScale)
      [] x = Fin(FScale) -> Fin(FScale)
      [] x.cls = "nan" \/ y.cls = "nan" -> NaN
      [] IsInf(y) ->
            IF x.cls = "fin" /\ Abs(x.m) = FScale THEN Fin(FScale)
            ELSE IF (x.cls = "fin" /\ Abs(x.m) < FScale) = (y.cls = "inf")
            THEN Fin(0) ELSE Inf(FALSE)
      [] x.cls = "inf" -> IF IsNeg(y) THEN Fin(0) ELSE Inf(FALSE)
      [] x.cls = "-inf" ->
            IF IsNeg(y) THEN Fin(0)
            ELSE Inf(y.m % (2 * FScale) = FScale)
      [] y.m % FScale = 0 ->
            IF y.m > 0 THEN FPowNat(x, y.m \div FScale)
            ELSE FDiv(Fin(FScale), FPowNat(x, (-y.m) \div FScale))
      [] x.m < 0 -> NaN
      [] IsZero(x) -> IF y.m > 0 THEN Fin(0) ELSE Inf(FALSE)
      [] OTHER ->
            LET e0   == TruncDiv(Abs(y.m), FScale)
                frac == Abs(y.m) - e0 * FScale
                lo   == FPowNat(x, e0)
                hi   == FPowNat(x, e0 + 1)
                mid  == IF hi.cls # "fin" THEN hi
                        ELSE Fin(lo.m + RoundDiv((hi.m - lo.m) * frac, FScale))
            IN  IF y.m > 0 THEN mid ELSE FDiv(Fin(FScale), mid)

\* `x as i128` for an f64: truncation toward zero, saturating, NaN to 0.
FloatToI128(x) ==
    CASE x.cls = "nan" -> 0
      [] x.cls = "inf" -> I128_MAX
      [] x.cls = "-inf" -> I128_MIN
      [] OTHER ->
            LET t == TruncDiv(x.m, FScale)
            IN  IF t > I128_MAX THEN I128_MAX
                ELSE IF t < I128_MIN THEN I128_MIN ELSE t

\* f64::round: to the nearest whole number, ties away from zero.
FRound(x) == IF x.cls = "fin" THEN Fin(RoundDiv(x.m, FScale) * FScale) ELSE x

\* A conversion that takes the integer for the mantissa: n / FScale, not n.
I128ToFloat_unscaled(n) == Fin(n)

\* `n as f64` for an integer.
I128ToFloat(n) == Fin(n * FScale)

FLess(x, y) ==
    CASE x.cls = "nan" \/ y.cls = "nan" -> FALSE
      [] x.cls = "-inf" -> y.cls # "-inf"
      [] y.cls = "inf" -> x.cls # "inf"
      [] x.cls = "inf" \/ y.cls = "-inf" -> FALSE
      [] OTHER -> x.m < y.m

(* i128 arithmetic: the checked operations return NoneInt for None *)

NoneInt == I128_MAX + 1

\* Arithmetic that wraps around instead of reporting None.
checked_wrapping(n) == Wrap(n)

checked(n) == IF InI128(n) THEN n ELSE NoneInt

checked_div(a, b) ==
    IF b = 0 THEN NoneInt ELSE checked(TruncDiv(a, b))

RECURSIVE checked_pow(_, _)
checked_pow(a, n) ==
    IF n = 0 THEN 1
    ELSE LET r == checked_pow(a, n - 1)
         IN  IF r = NoneInt THEN NoneInt ELSE checked(a * r)

\* checked_shl and checked_shr refuse a shift of the whole width or more, and
\* otherwise shift the bit pattern: what is shifted out is dropped.
checked_shl(a, n) == IF n >= IntBits THEN NoneInt ELSE Wrap(a * 2 ^ n)

checked_shr(a, n) == IF n >= IntBits THEN NoneInt ELSE a \div (2 ^ n)

RECURSIVE BitsAnd(_, _, _)
\* Bitwise and of two bit patterns of n bits.
BitsAnd(a, b, n) ==
    IF n = 0 THEN 0
    ELSE 2 * BitsAnd(a \div 2, b \div 2, n - 1)
            + (IF a % 2 = 1 /\ b % 2 = 1 THEN 1 ELSE 0)

Unsigned(n) == n % (2 ^ IntBits)

BitAnd(a, b) == Wrap(BitsAnd(Unsigned(a), Unsigned(b), IntBits))

BitNot(a) == -a - 1

BitOr(a, b) == BitNot(BitAnd(BitNot(a), BitNot(b)))

BitXor(a, b) == BitAnd(BitOr(a, b), BitNot(BitAnd(a, b)))

----------------------------------------------------------------------------
(* Evaluator: EE, a value with the span it came from *)

EE(value, p) == [value |-> value, pos |-> p]

NoEE == EE(Bool(FALSE), Pos(0, 0))

\* What an operation or eval returns: Ok(EE), Err(Error), or a panic.
Ok(value, p) == [st |-> "ok", ee |-> EE(value, p), err |-> NoError]

Err(msg, kind, p) == [st |-> "err", ee |-> NoEE, err |-> Error(msg, kind, p)]

Panic == [st |-> "panic", ee |-> NoEE, err |-> NoError]

calc_pos(self, other) == Pos(self.pos.start, other.pos.end)

\* gen_type_err with the left operand's span in place of the combined span.
gen_type_err_left(self, other, operation) ==
    Err(<<"cannot apply operator", operation,
          display_type(self.value), display_type(other.value)>>,
        "TypeError", self.pos)

gen_type_err(self, other, operation) ==
    Err(<<"cannot apply operator", operation,
          display_type(self.value), display_type(other.value)>>,
        "TypeError", calc_pos(self, other))

BothInteger(self, other) == self.value.ty = "Integer" /\ other.value.ty = "Integer"

BothFloat(self, other) == self.value.ty = "Float" /\ other.value.ty = "Float"

BothBool(self, other) == self.value.ty = "Bool" /\ other.value.ty = "Bool"

\* The shape add, sub, mul, int_div share: a checked integer result n.
CheckedInt(self, other, n, failure) ==
    IF n = NoneInt
    THEN Err(<<failure, self.value.v, other.value.v, "value overflowed">>,
             "RuntimeError", calc_pos(self, other))
    ELSE Ok(Integer(n), calc_pos(self, other))

add(self, other) ==
    CASE BothInteger(self, other) ->
            CheckedInt(self, other, checked(self.value.v + other.value.v), "failed to add")
      [] BothFloat(self, other) ->
            Ok(Float(FAdd(self.value.v, other.value.v)), calc_pos(self, other))
      [] OTHER -> gen_type_err(self, other, "add")

sub(self, other) ==
    CASE BothInteger(self, other) ->
            CheckedInt(self, other, checked(self.value.v - other.value.v),
                       "failed to subtract")
      [] BothFloat(self, other) ->
            Ok(Float(FSub(self.value.v, other.value.v)), calc_pos(self, other))
      [] OTHER -> gen_type_err(self, other, "subtract")

mul(self, other) ==
    CASE BothInteger(self, other) ->
            CheckedInt(self, other, checked(self.value.v * other.value.v),
                       "failed to multiply")
      [] BothFloat(self, other) ->
            Ok(Float(FMul(self.value.v, other.value.v)), calc_pos(self, other))
      [] OTHER -> gen_type_err(self, other, "multiply")

\* Integer `%` is unchecked: it panics on a zero divisor and on MIN % -1.
modulo(self, other) ==
    CASE BothInteger(self, other) ->
            IF other.value.v = 0 \/ (self.value.v = I128_MIN /\ other.value.v = -1)
            THEN Panic
            ELSE Ok(Integer(TruncRem(self.value.v, other.value.v)), calc_pos(self, other))
      [] BothFloat(self, other) ->
            Ok(Float(FRem(self.value.v, other.value.v)), calc_pos(self, other))
      [] OTHER -> gen_type_err(self, other, "modulo")

\* A division that keeps two integers integral and refuses a zero divisor.
div_integral(self, other) ==
    CASE BothInteger(self, other) ->
            CheckedInt(self, other, checked_div(self.value.v, other.value.v),
                       "failed to divide")
      [] BothFloat(self, other) ->
            Ok(Float(FDiv(self.value.v, other.value.v)), calc_pos(self, other))
      [] OTHER -> gen_type_err(self, other, "divide")

div(self, other) ==
    CASE BothInteger(self, other) ->
            Ok(Float(FDiv(I128ToFloat(self.value.v), I128ToFloat(other.value.v))),
               calc_pos(self, other))
      [] BothFloat(self, other) ->
            Ok(Float(FDiv(self.value.v, other.value.v)), calc_pos(self, other))
      [] OTHER -> gen_type_err(self, other, "divide")

int_div(self, other) ==
    CASE BothInteger(self, other) ->
            CheckedInt(self, other, checked_div(self.value.v, other.value.v),
                       "failed to integer divide")
      [] BothFloat(self, other) ->
            CheckedInt(self, other,
                       checked_div(FloatToI128(self.value.v), FloatToI128(other.value.v)),
                       "failed to integer divide")
      [] OTHER -> gen_type_err(self, other, "integer divide")

\* u32::try_from(right) succeeds.
FitsU32(n) == 0 <= n /\ n <= U32_MAX

\* The shape pow, bitshift_l, bitshift_r share: the right operand must fit a u32.
WithU32(self, other, n, failure) ==
    IF ~FitsU32(other.value.v)
    THEN Err(<<failure, self.value.v, other.value.v, "out of range integral type">>,
             "RuntimeError", calc_pos(self, other))
    ELSE IF n = NoneInt
    THEN Err(<<failure, self.value.v, other.value.v, "overflowed">>,
             "RuntimeError", calc_pos(self, other))
    ELSE Ok(Integer(n), calc_pos(self, other))

pow(self, other) ==
    CASE BothInteger(self, other) ->
            WithU32(self, other,
                    IF FitsU32(other.value.v)
                    THEN checked_pow(self.value.v, other.value.v) ELSE NoneInt,
                    "failed to raise to the power")
      [] BothFloat(self, other) ->
            Ok(Float(FPow(self.value.v, other.value.v)), calc_pos(self, other))
      [] OTHER -> gen_type_err(self, other, "power")

lnot(self) ==
    IF self.value.ty = "Bool"
    THEN Ok(Bool(~self.value.v), self.pos)
    ELSE Err(<<"cannot logically negate", display_type(self.value)>>,
             "RuntimeError", self.pos)

land(self, other) ==
    IF BothBool(self, other)
    THEN Ok(Bool(self.value.v /\ other.value.v), self.pos)
    ELSE gen_type_err(self, other, "logical and")

lor(self, other) ==
    IF BothBool(self, other)
    THEN Ok(Bool(self.value.v \/ other.value.v), self.pos)
    ELSE gen_type_err(self, other, "logical or")

band(self, other) ==
    IF BothInteger(self, other)
    THEN Ok(Integer(BitAnd(self.value.v, other.value.v)), self.pos)
    ELSE gen_type_err(self, other, "bitwise and")

bor(self, other) ==
    IF BothInteger(self, other)
    THEN Ok(Integer(BitOr(self.value.v, other.value.v)), self.pos)
    ELSE gen_type_err(self, other, "bitwise or")

bxor(self, other) ==
    IF BothInteger(self, other)
    THEN Ok(Integer(BitXor(self.value.v, other.value.v)), self.pos)
    ELSE gen_type_err(self, other, "bitwise xor")

bnot(self) ==
    IF self.value.ty = "Integer"
    THEN Ok(Integer(BitNot(self.value.v)), self.pos)
    ELSE Err(<<"cannot bitwise negate", display_type(self.value)>>,
             "RuntimeError", self.pos)

bitshift_l(self, other) ==
    IF BothInteger(self, other)
    THEN WithU32(self, other,
                 IF FitsU32(other.value.v)
                 THEN checked_shl(self.value.v, other.value.v) ELSE NoneInt,
                 "failed to bitshift left")
    ELSE gen_type_err(self, other, "left bitshift")

bitshift_r(self, other) ==
    IF BothInteger(self, other)
    THEN WithU32(self, other,
                 IF FitsU32(other.value.v)
                 THEN checked_shr(self.value.v, other.value.v) ELSE NoneInt,
                 "failed to bitshift right")
    ELSE gen_type_err(self, other, "right bitshift ")

\* target_type is the unevaluated right operand of `as`.
as_cast(self, target_type) ==
    IF target_type.expr # "Ident"
    THEN Err(<<"invalid type for as type operand", target_type.expr>>,
             "TypeError", target_type.pos)
    ELSE IF target_type.val = <<"f", "l", "o", "a", "t">>
         THEN CASE self.value.ty = "Integer" ->
                        IF I32_MIN <= self.value.v /\ self.value.v <= I32_MAX
                        THEN Ok(Float(I128ToFloat(self.value.v)), self.pos)
                        ELSE Err(<<"failed to convert", self.value.v, "float">>,
                                 "RuntimeError", self.pos)
                [] self.value.ty = "Float" -> Ok(self.value, self.pos)
                [] self.value.ty = "Bool" ->
                        Ok(Float(I128ToFloat(IF self.value.v THEN 1 ELSE 0)), self.pos)
         ELSE IF target_type.val = <<"i", "n", "t">>
         THEN CASE self.value.ty = "Integer" -> Ok(self.value, self.pos)
                [] self.value.ty = "Float" ->
                        Ok(Integer(FloatToI128(FRound(self.value.v))), self.pos)
                [] self.value.ty = "Bool" ->
                        Ok(Integer(IF self.value.v THEN 1 ELSE 0), self.pos)
         ELSE Err(<<"unknown type", target_type.val>>, "TypeError", target_type.pos)

\* `-val` on the minimum integer overflows: a panic in a build with overflow
\* checks, the minimum itself in a build without.
neg(self) ==
    CASE self.value.ty = "Integer" ->
            IF self.value.v = I128_MIN
            THEN IF overflow_checks THEN Panic ELSE Ok(Integer(I128_MIN), self.pos)
            ELSE Ok(Integer(-self.value.v), self.pos)
      [] self.value.ty = "Float" -> Ok(Float(FNeg(self.value.v)), self.pos)
      [] OTHER ->
            Err(<<"cannot make negative", display_type(self.value)>>,
                "TypeError", self.pos)

\* EE::pos: the absolute value (val.abs() overflows on the minimum, as `-val`).
ee_pos(self) ==
    CASE self.value.ty = "Integer" ->
            IF self.value.v = I128_MIN
            THEN IF overflow_checks THEN Panic ELSE Ok(Integer(I128_MIN), self.pos)
            ELSE Ok(Integer(Abs(self.value.v)), self.pos)
      [] self.value.ty = "Float" -> Ok(Float(FAbs(self.value.v)), self.pos)
      [] OTHER ->
            Err(<<"cannot make positive", display_type(self.value)>>,
                "TypeError", self.pos)

eql(self, other) == Ok(Bool(ValueEq(self.value, other.value)), calc_pos(self, other))

neql(self, other) == Ok(Bool(~ValueEq(self.value, other.value)), calc_pos(self, other))

\* The shape lt, gt, lte, gte share: the comparison's result on two integers
\* and on two floats.
Ordered(self, other, int_holds, float_holds, operation) ==
    CASE BothInteger(self, other) -> Ok(Bool(int_holds), calc_pos(self, other))
      [] BothFloat(self, other) -> Ok(Bool(float_holds), calc_pos(self, other))
      [] OTHER -> gen_type_err(self, other, operation)

FOrdered(x, y) == x.cls # "nan" /\ y.cls # "nan"

lt(self, other) ==
    Ordered(self, other, self.value.v < other.value.v,
            FLess(self.value.v, other.value.v), "less than")

gt(self, other) ==
    Ordered(self, other, self.value.v > other.value.v,
            FLess(other.value.v, self.value.v), "greater than")

lte(self, other) ==
    Ordered(self, other, self.value.v <= other.value.v,
            FOrdered(self.value.v, other.value.v) /\ ~FLess(other.value.v, self.value.v),
            "less than")

gte(self, other) ==
    Ordered(self, other, self.value.v >= other.value.v,
            FOrdered(self.value.v, other.value.v) /\ ~FLess(self.value.v, other.value.v),
            "greater than")

----------------------------------------------------------------------------
(* Evaluator: literals, environment and eval *)

DigitChars == <<"0", "1", "2", "3", "4", "5", "6", "7", "8", "9">>

DigitVal(c) == (CHOOSE i \in 1..10 : DigitChars[i] = c) - 1

AllDigits(text) == \A i \in 1..Len(text) : text[i] \in Digit

RECURSIVE NatVal(_)
\* The number a run of digits writes (0 for the empty run).
NatVal(text) ==
    IF text = <<>> THEN 0
    ELSE 10 * NatVal(SubSeq(text, 1, Len(text) - 1)) + DigitVal(text[Len(text)])

\* str::parse::<i128>: an optional sign and one or more digits, within range;
\* NoneInt for Err.
parse_i128(text) ==
    LET signed == text # <<>> /\ text[1] \in {"+", "-"}
        digits == IF signed THEN SubSeq(text, 2, Len(text)) ELSE text
        n      == IF signed /\ text[1] = "-" THEN -NatVal(digits) ELSE NatVal(digits)
    IN  IF digits = <<>> \/ ~AllDigits(digits) THEN NoneInt ELSE checked(n)

\* The index of the first character of text that is in `chars`, or Len(text) + 1.
FirstOf(text, chars) ==
    IF \E i \in 1..Len(text) : text[i] \in chars
    THEN CHOOSE i \in 1..Len(text) :
            text[i] \in chars /\ \A j \in 1..(i - 1) : text[j] \notin chars
    ELSE Len(text) + 1

\* str::parse::<f64> on the decimal forms digit* ['.' digit*] [('e'|'E') digit+]
\* with a digit in the mantissa: [ok, v].  Any other text is an Err.
parse_f64(text) ==
    LET ePos     == FirstOf(text, {"e", "E"})
        mantissa == SubSeq(text, 1, ePos - 1)
        exponent == SubSeq(text, ePos + 1, Len(text))
        dot      == FirstOf(mantissa, {"."})
        whole    == SubSeq(mantissa, 1, dot - 1)
        frac     == SubSeq(mantissa, dot + 1, Len(mantissa))
        wellFormed ==
            /\ AllDigits(whole) /\ AllDigits(frac) /\ whole \o frac # <<>>
            /\ (ePos <= Len(text) => exponent # <<>> /\ AllDigits(exponent))
        n        == NatVal(whole \o frac)
        expo     == NatVal(exponent) - Len(frac)
    IN  IF ~wellFormed THEN [ok |-> FALSE, v |-> NaN]
        ELSE [ok |-> TRUE,
              v  |-> IF n = 0 THEN Fin(0)
                     ELSE IF expo > 4 THEN Inf(FALSE)
                     ELSE IF expo >= 0 THEN Fin(n * 10 ^ expo * FScale)
                     ELSE IF expo < -8 THEN Fin(0)
                     ELSE Fin(RoundDiv(n * FScale, 10 ^ (-expo)))]

\* std::f64::consts, to the precision of Fin
PI == Fin(RoundDiv(314159 * FScale, 100000))

E == Fin(RoundDiv(271828 * FScale, 100000))

SQRT_2 == Fin(RoundDiv(141421 * FScale, 100000))

\* Executer::new: the map! of the constants, each at Pos::new(0, 0)
NewSymbtab ==
    [name \in {<<"p", "i">>, <<"t", "a", "u">>, <<"e">>, <<"s", "q", "r", "t", "2">>} |->
        EE(Float(CASE name = <<"p", "i">> -> PI
                   [] name = <<"t", "a", "u">> -> FMul(PI, Fin(2 * FScale))
                   [] name = <<"e">> -> E
                   [] name = <<"s", "q", "r", "t", "2">> -> SQRT_2),
           Pos(0, 0))]

\* The operators eval's InfixOp arm dispatches on with both operands evaluated.
BinaryOps ==
    {"Add", "Sub", "Mul", "Div", "Mod", "IntDiv", "Pow", "BitShiftL", "BitShiftR",
     "LOr", "LAnd", "BOr", "BAnd", "BXor", "NEql", "Eql", "LT", "LE", "GT", "GE"}

Binary(op, l, r) ==
    CASE op = "Add" -> add(l, r)
      [] op = "Sub" -> sub(l, r)
      [] op = "Mul" -> mul(l, r)
      [] op = "Div" -> div(l, r)
      [] op = "Mod" -> modulo(l, r)
      [] op = "IntDiv" -> int_div(l, r)
      [] op = "Pow" -> pow(l, r)
      [] op = "BitShiftL" -> bitshift_l(l, r)
      [] op = "BitShiftR" -> bitshift_r(l, r)
      [] op = "LOr" -> lor(l, r)
      [] op = "LAnd" -> land(l, r)
      [] op = "BOr" -> bor(l, r)
      [] op = "BAnd" -> band(l, r)
      [] op = "BXor" -> bxor(l, r)
      [] op = "NEql" -> neql(l, r)
      [] op = "Eql" -> eql(l, r)
      [] op = "LT" -> lt(l, r)
      [] op = "LE" -> lte(l, r)
      [] op = "GT" -> gt(l, r)
      [] op = "GE" -> gte(l, r)

Unary(op, v) ==
    CASE op = "Sub" -> neg(v)
      [] op = "Add" -> ee_pos(v)
      [] op = "BNot" -> bnot(v)
      [] op = "LNot" -> lnot(v)

\* TryBinary with the right operand's fault looked at first.
TryBinary_right_first(l, r, op) ==
    IF r.st # "ok" THEN r
    ELSE IF l.st # "ok" THEN l ELSE Binary(op, l.ee, r.ee)

\* self.eval(left)?.op(&self.eval(right)?)?: each `?` returns the operand's fault
\* as it is; the operation runs on two values.
TryBinary(l, r, op) ==
    IF l.st # "ok" THEN l
    ELSE IF r.st # "ok" THEN r ELSE Binary(op, l.ee, r.ee)

RECURSIVE eval(_)
\* Executer::eval: `?` hands an operand's error (or a panic) straight up.
eval(a) ==
    CASE a.expr = "True" -> Ok(Bool(TRUE), a.pos)
      [] a.expr = "False" -> Ok(Bool(FALSE), a.pos)
      [] a.expr = "Integer" ->
            LET n == parse_i128(a.val)
            IN  IF n = NoneInt
                THEN Err(<<"error converting to integer", a.val>>, "RuntimeError", a.pos)
                ELSE Ok(Integer(n), a.pos)
      [] a.expr = "Float" ->
            LET f == parse_f64(a.val)
            IN  IF ~f.ok
                THEN Err(<<"error converting to float", a.val>>, "RuntimeError", a.pos)
                ELSE Ok(Float(f.v), a.pos)
      [] a.expr = "InfixOp" ->
            IF a.op \notin BinaryOps \cup {"As", "LNot"}
            THEN Err(<<"infix not implemented yet", a.op>>, "TypeError", a.pos)
            ELSE LET l == eval(a.left)
                 IN  IF a.op = "As"
                     THEN IF l.st # "ok" THEN l ELSE as_cast(l.ee, a.right)
                     ELSE IF a.op = "LNot"
                     THEN IF l.st # "ok" THEN l ELSE lnot(l.ee)
                     ELSE TryBinary(l, eval(a.right), a.op)
      [] a.expr = "PrefixOp" ->
            IF a.op \notin {"Sub", "Add", "BNot", "LNot"}
            THEN Err(<<"prefix not implemented yet", a.op>>, "TypeError", a.pos)
            ELSE LET v == eval(a.value)
                 IN  IF v.st # "ok" THEN v ELSE Unary(a.op, v.ee)
      [] a.expr = "Ident" ->
            IF a.val \in DOMAIN symbtab
            THEN [st |-> "ok", ee |-> symbtab[a.val], err |-> NoError]
            ELSE Err(<<"no variable found", a.val>>, "RuntimeError", a.pos)

----------------------------------------------------------------------------
(* Expressions: what the parser hands to eval *)

Operators ==
    {"Add", "Sub", "Mul", "Div", "IntDiv", "Mod", "Pow", "BitShiftL", "BitShiftR",
     "BAnd", "BOr", "BXor", "BNot", "LAnd", "LOr", "LNot", "As", "Eql", "NEql",
     "LT", "LE", "GT", "GE"}

True(p) == [expr |-> "True", pos |-> p]

False(p) == [expr |-> "False", pos |-> p]

IntegerLit(text, p) == [expr |-> "Integer", val |-> text, pos |-> p]

FloatLit(text, p) == [expr |-> "Float", val |-> text, pos |-> p]

Ident(name, p) == [expr |-> "Ident", val |-> name, pos |-> p]

InfixOp(op, left, right, p) ==
    [expr |-> "InfixOp", op |-> op, left |-> left, right |-> right, pos |-> p]

PrefixOp(op, value, p) == [expr |-> "PrefixOp", op |-> op, value |-> value, pos |-> p]

NoExpr == [expr |-> "none", pos |-> Pos(0, 0)]

NotCalled == [st |-> "none", ee |-> NoEE, err |-> NoError]

RECURSIVE NatText(_)
\* The decimal text of a natural number.
NatText(n) ==
    IF n < 10 THEN <<DigitChars[n + 1]>>
    ELSE Append(NatText(n \div 10), DigitChars[(n % 10) + 1])

IntText(n) == IF n < 0 THEN <<"-">> \o NatText(-n) ELSE NatText(n)

\* Bounds of the evaluator's inputs: blanks before the expression, and operator
\* nodes in the nested expressions.
MaxLead == 1
MaxNodes == 2

\* Calls of eval on one evaluator.
MaxCalls == 2

IntegerTexts ==
    {IntText(n) : n \in {0, 1, 2, -1, IntBits, I128_MAX, I128_MIN, I128_MAX + 1}}
        \cup {<<" ">>}

FloatTexts ==
    {<<"1", ".", "5">>, <<"2", ".", "0">>, <<"0", ".", "0">>, <<"1", "e", "9">>}

\* Names are texts, like the literals: sequences of characters.
IdentNames ==
    {<<"p", "i">>, <<"t", "a", "u">>, <<"e">>,
     <<"s", "q", "r", "t", "2">>, <<"x">>,
     <<"f", "l", "o", "a", "t">>, <<"i", "n", "t">>}

\* The leaves whose token starts at offset s.
Leaves(s) ==
    {True(Pos(s, s + 4)), False(Pos(s, s + 5))}
        \cup {IntegerLit(t, Pos(s, s + Len(t))) : t \in IntegerTexts}
        \cup {FloatLit(t, Pos(s, s + Len(t))) : t \in FloatTexts}
        \cup {Ident(name, Pos(s, s + Len(name))) : name \in IdentNames}

\* A prefix operator is one character before its operand; an infix operator sits
\* between its operands with a blank on either side.  A node spans its tokens.
MkPrefix(op, v) == PrefixOp(op, v, Pos(v.pos.start - 1, v.pos.end))

MkInfix(op, l, r) == InfixOp(op, l, r, Pos(l.pos.start, r.pos.end))

DeepLeaves(s) ==
    {True(Pos(s, s + 4)), IntegerLit(<<"1">>, Pos(s, s + 1)),
     Ident(<<"p", "i">>, Pos(s, s + 2)), Ident(<<"x">>, Pos(s, s + 1))}

DeepInfix == {"Add", "LAnd", "BAnd"}

DeepPrefix == {"Sub"}

\* The names a cast is written with, and one that is no type.
TypeNames(s) ==
    {Ident(name, Pos(s, s + Len(name))) :
        name \in {<<"f", "l", "o", "a", "t">>, <<"i", "n", "t">>, <<"x">>}}

RECURSIVE Deep(_, _)
\* Nested expressions of at most n operator nodes that start at offset s.
Deep(n, s) ==
    IF n = 0 THEN DeepLeaves(s)
    ELSE Deep(n - 1, s)
            \cup {MkPrefix(op, v) : op \in DeepPrefix, v \in Deep(n - 1, s + 1)}
            \cup UNION {UNION {{MkInfix(op, l, r) :
                                    op \in DeepInfix,
                                    r \in Deep(n - 1 - k, l.pos.end + 3)}
                                : l \in Deep(k, s)}
                        : k \in 0..(n - 1)}

\* ast is an expression that starts at offset s: a leaf, any operator on a leaf or
\* a pair of leaves, a cast of a cast of a leaf, or a nested expression of
\* Deep(MaxNodes, s).
Expression(s) ==
    \/ ast \in Leaves(s)
    \/ \E op \in Operators, v \in Leaves(s + 1) : ast = MkPrefix(op, v)
    \/ \E op \in Operators, l \in Leaves(s) :
            \E r \in Leaves(l.pos.end + 3) : ast = MkInfix(op, l, r)
    \/ \E l \in Leaves(s) :
            \E t1 \in TypeNames(l.pos.end + 3) :
                \E t2 \in TypeNames(t1.pos.end + 3) :
                    ast = MkInfix("As", MkInfix("As", l, t1), t2)
    \/ ast \in Deep(MaxNodes - 1, s)
    \/ \E op \in DeepPrefix, v \in Deep(MaxNodes - 1, s + 1) : ast = MkPrefix(op, v)
    \/ \E op \in DeepInfix, k \in 0..(MaxNodes - 1) :
            \E l \in Deep(k, s) :
                \E r \in Deep(MaxNodes - 1 - k, l.pos.end + 3) : ast = MkInfix(op, l, r)

----------------------------------------------------------------------------
(* The evaluator's steps *)

\* A call of Executer::eval on the expression in hand.
\* A call of eval that also binds its result in the environment.
Eval_binding ==
    /\ ast # NoExpr
    /\ calls < MaxCalls
    /\ out' = eval(ast)
    /\ calls' = calls + 1
    /\ symbtab' = IF out'.st = "ok"
                  THEN [name \in DOMAIN symbtab \cup {<<"x">>} |->
                            IF name = <<"x">> THEN out'.ee ELSE symbtab[name]]
                  ELSE symbtab
    /\ UNCHANGED <<overflow_checks, ast, lexvars>>

Eval ==
    /\ ast # NoExpr
    /\ calls < MaxCalls
    /\ out' = eval(ast)
    /\ calls' = calls + 1
    /\ UNCHANGED <<symbtab, overflow_checks, ast, lexvars>>

\* The caller takes the result and hands the evaluator another expression.
Submit ==
    /\ out # NotCalled
    /\ ast' \in DeepLeaves(0)
    /\ out' = NotCalled
    /\ UNCHANGED <<symbtab, overflow_checks, calls, lexvars>>

IdleLexer ==
    /\ src = <<>>
    /\ it = 0
    /\ pos = 0
    /\ tokens = <<>>
    /\ result = "running"
    /\ error = NoError

EvalInit ==
    /\ symbtab = NewSymbtab
    /\ overflow_checks \in BOOLEAN
    /\ \E s \in 0..MaxLead : Expression(s)
    /\ out = NotCalled
    /\ calls = 0
    /\ IdleLexer

EvalNext == Eval \/ Submit

EvalSpec == EvalInit /\ [][EvalNext]_vars

----------------------------------------------------------------------------
(* Evaluator claims *)

\* eval has been called on ast and out is what it returned.
Evaluated == out # NotCalled

\* The EE eval yields for an operand of ast (the operand evaluated without fault).
Operand(node) == eval(node).ee

\* C8: the result of every successful binary operation carries the span
\* {left.span.start, right.span.end}, left and right being the operand values;
\* the result of every successful unary operation or cast carries its operand's
\* span.
C8_ResultSpans ==
    Evaluated /\ out.st = "ok" =>
        /\ ast.expr = "InfixOp" /\ ast.op \in BinaryOps =>
                out.ee.pos = Pos(Operand(ast.left).pos.start, Operand(ast.right).pos.end)
        /\ ast.expr = "InfixOp" /\ ast.op \in {"As", "LNot"} =>
                out.ee.pos = Operand(ast.left).pos
        /\ ast.expr = "PrefixOp" => out.ee.pos = Operand(ast.value).pos

RECURSIVE ParserContract(_)
\* Every node's span has start <= end, and a left operand's span lies before its
\* right operand's.
ParserContract(a) ==
    /\ a.pos.start <= a.pos.end
    /\ a.expr = "InfixOp" =>
            /\ ParserContract(a.left)
            /\ ParserContract(a.right)
            /\ a.left.pos.end <= a.right.pos.start
    /\ a.expr = "PrefixOp" => ParserContract(a.value)

\* C9: for a tree that meets the parser contract, the span carried by the value
\* or the error eval returns has start <= end.
C9_SpansOrdered ==
    Evaluated /\ ParserContract(ast) =>
        /\ out.st = "ok" => out.ee.pos.start <= out.ee.pos.end
        /\ out.st = "err" => out.err.pos.start <= out.err.pos.end

\* C10: eval of an Ident node whose name is in the environment returns the
\* environment's Float value with the span of that node; eval of an Ident node
\* whose name is absent returns the RuntimeError "no variable found" with the
\* node's span.
C10_IdentSpan ==
    Evaluated /\ ast.expr = "Ident" =>
        IF ast.val \in DOMAIN symbtab
        THEN /\ out.st = "ok"
             /\ out.ee.value = symbtab[ast.val].value
             /\ out.ee.value.ty = "Float"
             /\ out.ee.pos = ast.pos
        ELSE /\ out.st = "err"
             /\ out.err.kind = "RuntimeError"
             /\ out.err.msg = <<"no variable found", ast.val>>
             /\ out.err.pos = ast.pos

\* ast is an infix node whose operator takes two evaluated operands, and both
\* operands evaluate without fault.
BinaryOnValues ==
    /\ Evaluated
    /\ ast.expr = "InfixOp"
    /\ ast.op \in BinaryOps
    /\ eval(ast.left).st = "ok"
    /\ eval(ast.right).st = "ok"

ArithmeticOps == {"Add", "Sub", "Mul", "Div", "IntDiv", "Mod", "Pow"}

BitwiseOps == {"BAnd", "BOr", "BXor", "BitShiftL", "BitShiftR"}

\* C11: an arithmetic or bitwise operator on two evaluated operands that are not
\* both Integer or both Float, and a bitwise or shift operator on two Floats,
\* returns a TypeError whose message names both operand types and whose span is
\* {left.span.start, right.span.end}.
C11_TypeMismatch ==
    LET l == Operand(ast.left)
        r == Operand(ast.right)
    IN  /\ BinaryOnValues
        /\ ast.op \in ArithmeticOps \cup BitwiseOps
        /\ \/ ~(BothInteger(l, r) \/ BothFloat(l, r))
           \/ ast.op \in BitwiseOps /\ BothFloat(l, r)
        => /\ out.st = "err"
           /\ out.err.kind = "TypeError"
           /\ Len(out.err.msg) = 4
           /\ out.err.msg[3] = display_type(l.value)
           /\ out.err.msg[4] = display_type(r.value)
           /\ out.err.pos = Pos(l.pos.start, r.pos.end)

\* The call of eval on `true + 1` has returned its TypeError.
C11_Witness ==
    /\ BinaryOnValues
    /\ ast.op = "Add"
    /\ ast.left.expr = "True"
    /\ ast.right.expr = "Integer"
    /\ ast.right.val = <<"1">>
    /\ out.st = "err"
    /\ out.err.kind = "TypeError"

\* C12: errors are terminal and ordered depth-first, left to right.  For an infix
\* node, an error of the left operand is returned exactly as it is; when only the
\* right operand fails, its error is returned exactly as it is; an error of the
\* operator itself is returned only when the operands it evaluates succeeded.  A
\* prefix node returns its operand's error exactly as it is.  (The right operand
\* of As, a type name, and of an infix LNot is not evaluated.)
C12_ErrorOrder ==
    /\ Evaluated /\ ast.expr = "InfixOp" /\ ast.op \in BinaryOps \cup {"As", "LNot"} =>
            LET l == eval(ast.left)
                r == eval(ast.right)
            IN  /\ l.st = "err" => out = l
                /\ ast.op \in BinaryOps /\ l.st = "ok" /\ r.st = "err" => out = r
                /\ ast.op \in BinaryOps /\ out.st = "err" /\ (l.st # "ok" \/ r.st # "ok") =>
                        out \in {l, r}
                /\ ast.op \notin BinaryOps /\ out.st = "err" /\ l.st # "ok" => out = l
    /\ Evaluated /\ ast.expr = "PrefixOp" /\ ast.op \in {"Sub", "Add", "BNot", "LNot"} =>
            LET v == eval(ast.value)
            IN  v.st = "err" => out = v

\* Both operands of a binary operator fail, with different errors, and eval has
\* returned the left one.
C12_Witness ==
    /\ Evaluated
    /\ ast.expr = "InfixOp"
    /\ ast.op \in BinaryOps
    /\ eval(ast.left).st = "err"
    /\ eval(ast.right).st = "err"
    /\ eval(ast.left) # eval(ast.right)
    /\ out = eval(ast.left)

\* The variants a unary operator is defined on.
UnaryAccepts(op) ==
    CASE op \in {"Sub", "Add"} -> {"Integer", "Float"}
      [] op = "LNot" -> {"Bool"}
      [] op = "BNot" -> {"Integer"}

\* C13: a unary operator on an evaluated operand of a variant it is not defined
\* on (Sub or Add on Bool, LNot on Integer or Float, BNot on Float or Bool)
\* fails with an error of kind TypeError that carries the operand's span.
C13_UnaryTypeError ==
    /\ Evaluated
    /\ ast.expr = "PrefixOp"
    /\ ast.op \in {"Sub", "Add", "LNot", "BNot"}
    /\ eval(ast.value).st = "ok"
    /\ Operand(ast.value).value.ty \notin UnaryAccepts(ast.op)
    => /\ out.st = "err"
       /\ out.err.kind = "TypeError"
       /\ out.err.pos = Operand(ast.value).pos

\* The mathematical result of Add, Sub or Mul on two integers.
Exact(op, a, b) ==
    CASE op = "Add" -> a + b
      [] op = "Sub" -> a - b
      [] op = "Mul" -> a * b

\* C14: Add, Sub and Mul on two Integer operands return the exact mathematical
\* result when it fits the signed 128-bit range, and otherwise fail with a
\* RuntimeError that carries the combined span; never a wrapped Integer.
C14_CheckedArithmetic ==
    LET l == Operand(ast.left)
        r == Operand(ast.right)
        exact == Exact(ast.op, l.value.v, r.value.v)
    IN  BinaryOnValues /\ ast.op \in {"Add", "Sub", "Mul"} /\ BothInteger(l, r) =>
            IF InI128(exact)
            THEN out.st = "ok" /\ out.ee.value = Integer(exact)
            ELSE /\ out.st = "err"
                 /\ out.err.kind = "RuntimeError"
                 /\ out.err.pos = Pos(l.pos.start, r.pos.end)

\* The call of eval on Integer::MAX + 1 has returned its RuntimeError.
C14_Witness ==
    /\ BinaryOnValues
    /\ ast.op = "Add"
    /\ Operand(ast.left).value = Integer(I128_MAX)
    /\ Operand(ast.right).value = Integer(1)
    /\ out.st = "err"
    /\ out.err.kind = "RuntimeError"

\* The shift amount n is one checked_shl and checked_shr take: it fits a u32 and
\* is less than the width.
ShiftAmountOk(n) == FitsU32(n) /\ n < IntBits

\* C15: BitShiftL and BitShiftR on two Integer operands return a RuntimeError when
\* the shift amount does not fit an unsigned 32-bit integer, is out of range for
\* the width, or the shift overflows the signed range; a successful shift is the
\* exact a * 2^n, or a / 2^n rounded down.
C15_CheckedShift ==
    LET l == Operand(ast.left)
        r == Operand(ast.right)
        a == l.value.v
        n == r.value.v
    IN  BinaryOnValues /\ ast.op \in {"BitShiftL", "BitShiftR"} /\ BothInteger(l, r) =>
            IF ~ShiftAmountOk(n) \/ (ast.op = "BitShiftL" /\ ~InI128(a * 2 ^ n))
            THEN out.st = "err" /\ out.err.kind = "RuntimeError"
            ELSE /\ out.st = "ok"
                 /\ out.ee.value =
                        Integer(IF ast.op = "BitShiftL" THEN a * 2 ^ n ELSE a \div 2 ^ n)

\* C16: Eql and NEql succeed on every pair of evaluated operands; operands of
\* different variants give Eql = false and NEql = true; NEql is the negation of
\* Eql on the same operands.  LT, LE, GT and GE fail with a TypeError on every
\* pair that is not Integer/Integer or Float/Float.
C16_EqualityNeverFails ==
    LET l == Operand(ast.left)
        r == Operand(ast.right)
    IN  /\ BinaryOnValues /\ ast.op \in {"Eql", "NEql"} =>
                /\ out.st = "ok"
                /\ out.ee.value.ty = "Bool"
                /\ l.value.ty # r.value.ty => out.ee.value.v = (ast.op = "NEql")
                /\ out.ee.value.v =
                        ~eval([ast EXCEPT !.op = IF ast.op = "Eql" THEN "NEql" ELSE "Eql"])
                            .ee.value.v
        /\ BinaryOnValues /\ ast.op \in {"LT", "LE", "GT", "GE"}
                /\ ~(BothInteger(l, r) \/ BothFloat(l, r)) =>
                    out.st = "err" /\ out.err.kind = "TypeError"

\* The call of eval on `2 == 2.0` has returned false.
C16_Witness ==
    /\ BinaryOnValues
    /\ ast.op = "Eql"
    /\ Operand(ast.left).value = Integer(2)
    /\ Operand(ast.right).value = Float(Fin(2 * FScale))
    /\ out.st = "ok"
    /\ out.ee.value = Bool(FALSE)

\* C17: Div on Integer/Integer and on Float/Float operands succeeds with a value
\* of variant Float, a zero divisor included; an integer quotient q comes back as
\* the Float q.0; Div never returns an Integer.
C17_DivIsFloat ==
    LET l == Operand(ast.left)
        r == Operand(ast.right)
    IN  BinaryOnValues /\ ast.op = "Div" =>
            /\ BothInteger(l, r) \/ BothFloat(l, r) =>
                    out.st = "ok" /\ out.ee.value.ty = "Float"
            /\ BothInteger(l, r) /\ r.value.v # 0 /\ TruncRem(l.value.v, r.value.v) = 0 =>
                    out.ee.value = Float(Fin(TruncDiv(l.value.v, r.value.v) * FScale))
            /\ out.st = "ok" => out.ee.value.ty = "Float"

\* The call of eval on `2 / 0` has returned the Float infinity.
C17_Witness ==
    /\ BinaryOnValues
    /\ ast.op = "Div"
    /\ Operand(ast.left).value = Integer(2)
    /\ Operand(ast.right).value = Integer(0)
    /\ out.st = "ok"
    /\ out.ee.value = Float(Inf(FALSE))

\* a is a cast to the type called name.
IsCast(a, name) ==
    a.expr = "InfixOp" /\ a.op = "As" /\ a.right.expr = "Ident" /\ a.right.val = name

\* a evaluates to an Integer.
IsInteger(a) == eval(a).st = "ok" /\ Operand(a).value.ty = "Integer"

InI32(n) == I32_MIN <= n /\ n <= I32_MAX

\* C18: for an Integer n within the signed 32-bit range `(n as float) as int`
\* succeeds and yields Integer n; for an Integer outside that range `n as float`
\* fails with a RuntimeError; `n as int` yields n for every Integer n.
C18_CastRoundTrip ==
    /\ Evaluated /\ IsCast(ast, <<"i", "n", "t">>) /\ IsCast(ast.left, <<"f", "l", "o", "a", "t">>)
            /\ IsInteger(ast.left.left) /\ InI32(Operand(ast.left.left).value.v) =>
                out.st = "ok" /\ out.ee.value = Operand(ast.left.left).value
    /\ Evaluated /\ IsCast(ast, <<"f", "l", "o", "a", "t">>) /\ IsInteger(ast.left)
            /\ ~InI32(Operand(ast.left).value.v) =>
                out.st = "err" /\ out.err.kind = "RuntimeError"
    /\ Evaluated /\ IsCast(ast, <<"i", "n", "t">>) /\ IsInteger(ast.left) =>
                out.st = "ok" /\ out.ee.value = Operand(ast.left).value

\* The call of eval on `(2 as float) as int` has returned Integer 2.
C18_Witness ==
    /\ Evaluated
    /\ IsCast(ast, <<"i", "n", "t">>)
    /\ IsCast(ast.left, <<"f", "l", "o", "a", "t">>)
    /\ IsInteger(ast.left.left)
    /\ Operand(ast.left.left).value = Integer(2)
    /\ out.st = "ok"
    /\ out.ee.value = Integer(2)

\* C19: after any sequence of eval calls, successful or failing, the environment
\* still maps exactly pi, tau, e and sqrt2 to their initial Float values, and a
\* call on the expression of the call before it returns the same value or the
\* same error.
C19_EnvironmentUnchanged ==
    /\ [](symbtab = NewSymbtab)
    /\ [](\A name \in DOMAIN symbtab : symbtab[name].value.ty = "Float")
    /\ [][Evaluated /\ ast' = ast /\ out' # NotCalled => out' = out]_vars

\* A second call, after a first one, has read the environment and returned.
C19_Witness ==
    /\ calls = 2
    /\ ast.expr = "Ident"
    /\ ast.val = <<"p", "i">>
    /\ out.st = "ok"
    /\ out.ee.value = Float(PI)

\* C20: every call of eval returns a value or an error of kind TypeError or
\* RuntimeError; no operator on any operand values aborts the evaluation.
C20_NoPanic ==
    Evaluated =>
        \/ out.st = "ok"
        \/ out.st = "err" /\ out.err.kind \in {"TypeError", "RuntimeError"}

====
